---- MODULE Spec2Model ----
(***************************************************************************)
(* Model of mzsh: the interactive selector (CustomListPrompt), the menu    *)
(* flow around it (InteractiveMenu.showInteractiveMenu / openFile), the    *)
(* launcher (openFileWithType) and the part of ZshrcManager.run that       *)
(* leads into them: argument parsing in standalone mode (the runners pass  *)
(* a plain config object, so the OCLIF branch of run() is not taken) and   *)
(* FileDiscovery.discoverZshFiles; and the two maintenance flows run()     *)
(* routes to, UpdateManager.runUpdate and SelfUninstaller.runUninstall.    *)
(*                                                                         *)
(* The program is single threaded and event driven.  Every action below is *)
(* one run-to-completion step of the event loop: the synchronous start of  *)
(* the program, one 'keypress' event, the continuation after an await, or  *)
(* one event of the child process.                                         *)
(***************************************************************************)
EXTENDS Integers, Sequences, FiniteSets, TLC

\* ------------------------------------------------------------------ bounds
MaxSecondary == 2   \* number of candidate entries of ~/.config/zsh
MaxEntries == 3     \* the same number in the specification of discovery alone
MaxKeys == 4        \* number of 'keypress' events delivered in one run
MaxExitCode == 2    \* the child's exit status ranges over 0..MaxExitCode
MaxShown == 4       \* number of files of a menu in the specification of the selector alone
MaxPage == 8        \* the page size of a prompt ranges over 1..MaxPage
MaxContent == 4     \* number of pieces of text of a shell configuration file

\* --------------------------------------------------------------- constants
DefaultPageSize == 10   \* options.pageSize || 10
MaxPageSize == 15       \* Math.min(files.length + 3, 15)

Max(a, b) == IF a > b THEN a ELSE b
Min(a, b) == IF a < b THEN a ELSE b

\* ------------------------------------------------------------------- files
\* Names and paths of the entries of ~/.config/zsh, in ascending name order.
SecondaryNames == <<"a.zsh", "b.zsh", "c.zsh", "d.zsh">>
SecondaryPaths == <<"/home/u/.config/zsh/a.zsh", "/home/u/.config/zsh/b.zsh",
                    "/home/u/.config/zsh/c.zsh", "/home/u/.config/zsh/d.zsh">>

ZshrcFile == [name |-> ".zshrc", path |-> "/home/u/.zshrc", isZshrc |-> TRUE]
SecondaryFile(i) == [name |-> SecondaryNames[i], path |-> SecondaryPaths[i], isZshrc |-> FALSE]

\* The ascending sequence of the elements of a set of indices.
RECURSIVE SortedSeq(_)
SortedSeq(S) ==
  IF S = {} THEN <<>>
  ELSE LET m == CHOOSE x \in S : \A y \in S : x <= y
       IN <<m>> \o SortedSeq(S \ {m})

\* All orderings of a set of indices.
RECURSIVE Orderings(_)
Orderings(S) ==
  IF S = {} THEN {<<>>}
  ELSE UNION {{<<x>> \o t : t \in Orderings(S \ {x})} : x \in S}

\* The file system as discovery sees it: whether ~/.zshrc exists, whether
\* ~/.config/zsh exists, the order in which readdir lists its entries, and
\* which entries are regular files (stat.isFile()).
FileSystems(n) ==
  {[hasZshrc |-> z, dirExists |-> d, configFiles |-> l, regular |-> r] :
     z \in BOOLEAN, d \in BOOLEAN,
     l \in UNION {Orderings(S) : S \in SUBSET (1..n)},
     r \in SUBSET (1..n)}

\* A file system is well formed when a missing directory lists nothing and
\* only listed entries carry a kind.
WellFormed(fs) ==
  /\ fs.regular \subseteq {fs.configFiles[i] : i \in DOMAIN fs.configFiles}
  /\ ~fs.dirExists => fs.configFiles = <<>>

\* What the input/output calls of discovery raise on a file system: the
\* outcome of readdir on the directory ("ok", or the code of the error it
\* raises: EACCES for a directory that cannot be read, ENOTDIR when
\* ~/.config/zsh is not a directory), the listed entries whose stat raises
\* ENOENT (symbolic links whose target is missing) and those whose stat
\* raises EACCES.
IOFaults(n) ==
  [readdir : {"ok", "EACCES", "ENOTDIR"}, dangling : SUBSET (1..n), denied : SUBSET (1..n)]

NoFaults == [readdir |-> "ok", dangling |-> {}, denied |-> {}]

\* Faults that can occur on the file system fs: stat fails only for listed
\* entries, which then are no regular files, and a failing readdir lists
\* nothing.
Consistent(fs, f) ==
  /\ f.dangling \cap f.denied = {}
  /\ (f.dangling \cup f.denied) \subseteq
        ({fs.configFiles[i] : i \in DOMAIN fs.configFiles} \ fs.regular)
  /\ f.readdir # "ok" => (fs.dirExists /\ fs.configFiles = <<>>)

\* Position of a name in the collation order localeCompare uses.
Collation == <<".zshrc", "a.zsh", "b.zsh", "c.zsh", "d.zsh">>
rank(name) == CHOOSE i \in DOMAIN Collation : Collation[i] = name

sign(x) == IF x < 0 THEN -1 ELSE IF x > 0 THEN 1 ELSE 0

\* Variant of localeCompare with the operands swapped.
localeCompareSwapped(a, b) == sign(rank(b) - rank(a))

\* a.localeCompare(b)
localeCompare(a, b) == sign(rank(a) - rank(b))

\* The comparator handed to files.sort().
compareFiles(a, b) ==
  IF a.isZshrc /\ ~b.isZshrc THEN -1
  ELSE IF ~a.isZshrc /\ b.isZshrc THEN 1
  ELSE localeCompare(a.name, b.name)

\* Array.prototype.sort with compareFiles: a stable sort, as an insertion sort.
RECURSIVE insertSorted(_, _)
insertSorted(f, sorted) ==
  IF sorted = <<>> THEN <<f>>
  ELSE IF compareFiles(f, Head(sorted)) < 0 THEN <<f>> \o sorted
  ELSE <<Head(sorted)>> \o insertSorted(f, Tail(sorted))

RECURSIVE sortFiles(_)
sortFiles(fs) ==
  IF fs = <<>> THEN <<>>
  ELSE insertSorted(fs[Len(fs)], sortFiles(SubSeq(fs, 1, Len(fs) - 1)))

\* Variant of pushedFiles without the stat.isFile() filter.
pushedFilesNoFilter(fs) ==
  (IF fs.hasZshrc THEN <<ZshrcFile>> ELSE <<>>)
    \o [i \in 1..Len(fs.configFiles) |-> SecondaryFile(fs.configFiles[i])]

\* The files pushed by the two discovery phases, in the order of the pushes.
pushedFiles(fs) ==
  (IF fs.hasZshrc THEN <<ZshrcFile>> ELSE <<>>)
    \o (IF fs.dirExists
        THEN LET kept == SelectSeq(fs.configFiles, LAMBDA i : i \in fs.regular)
             IN [i \in 1..Len(kept) |-> SecondaryFile(kept[i])]
        ELSE <<>>)

\* Result of FileDiscovery.discoverZshFiles on the file system fs.
discoverZshFiles(fs) == sortFiles(pushedFiles(fs))

\* Variant of discoveryError that raises nothing.
discoveryErrorNone(fs, f) == "none"

\* The code of the error discoverZshFiles raises on fs under the faults f,
\* "none" when it returns: pathExists raises nothing, readdir is called
\* only when the directory exists, stat is called for every listed entry in
\* listing order, and the first error raised ends the call.
discoveryError(fs, f) ==
  IF ~fs.dirExists THEN "none"
  ELSE IF f.readdir # "ok" THEN f.readdir
  ELSE LET failing == SelectSeq(fs.configFiles,
                                LAMBDA i : i \in f.dangling \cup f.denied)
       IN IF failing = <<>> THEN "none"
          ELSE IF Head(failing) \in f.dangling THEN "ENOENT"
          ELSE "EACCES"

\* ------------------------------------------------------------ open configs
OpenTypes == {"default", "vim", "nano", "code", "subl"}
Platforms == {"darwin", "win32", "linux"}

createDefaultCommand(platform) ==
  IF platform = "darwin" THEN "open" ELSE IF platform = "win32" THEN "start" ELSE "xdg-open"

openConfigs ==
  [t \in OpenTypes |->
     CASE t = "default" -> [name |-> "Default Application", command |-> "function",
                            detached |-> TRUE, stdio |-> "ignore", shell |-> FALSE, waitForExit |-> FALSE]
       [] t = "vim"     -> [name |-> "Vim", command |-> "vim",
                            detached |-> FALSE, stdio |-> "inherit", shell |-> TRUE, waitForExit |-> TRUE]
       [] t = "nano"    -> [name |-> "Nano", command |-> "nano",
                            detached |-> FALSE, stdio |-> "inherit", shell |-> TRUE, waitForExit |-> TRUE]
       [] t = "code"    -> [name |-> "VS Code", command |-> "code",
                            detached |-> TRUE, stdio |-> "ignore", shell |-> FALSE, waitForExit |-> FALSE]
       [] t = "subl"    -> [name |-> "Sublime Text", command |-> "subl",
                            detached |-> TRUE, stdio |-> "ignore", shell |-> FALSE, waitForExit |-> FALSE]]

\* Keys that every object inherits from Object.prototype; `key in obj` and
\* obj[key] see them as well as the own keys.
InheritedKeys == {"toString"}

\* What obj[key] yields for an inherited key: a function object, whose name
\* is the key and which has none of the fields of an OpenConfig.
inheritedValue(t) ==
  [name |-> t, command |-> "undefined", detached |-> FALSE, stdio |-> "undefined",
   shell |-> FALSE, waitForExit |-> FALSE]

getOpenConfig(t) == IF t \in OpenTypes THEN openConfigs[t] ELSE inheritedValue(t)

\* `type in openConfigs`
isValidOpenType(type) == type \in (DOMAIN openConfigs) \cup InheritedKeys

\* ------------------------------------------------------------------- args
\* The command line in standalone mode: the boolean flags and the word
\* after -o/--open-type ("absent": no -o at all, "missing": -o is the last
\* word).
OpenTypeWords == OpenTypes \cup InheritedKeys \cup {"emacs"}
Arguments ==
  [help : BOOLEAN, update : BOOLEAN, reinstall : BOOLEAN, uninst : BOOLEAN,
   openTypeArg : OpenTypeWords \cup {"absent", "missing"}]

\* ------------------------------------------------------------- maintenance
\* The shell configuration files SelfUninstaller looks at, in its order.
ShellConfigs == <<".zshrc", ".bashrc", ".profile", ".bash_profile">>
ConfigNames == {ShellConfigs[i] : i \in DOMAIN ShellConfigs}

\* The content of a file is a sequence of pieces of text: the installer
\* marker, the line break, the export of the bun PATH, and other text.
Marker == "# Added by mzsh installer"
Newline == "NL"
BunPath == "export PATH=$HOME/.bun/bin:$PATH"
OtherText == "alias ll=ls"
Pieces == {Marker, Newline, BunPath, OtherText}

\* All contents of at most n pieces.
Contents(n) == UNION {[1..k -> Pieces] : k \in 0..n}

\* A file that does not exist.
Missing == <<"ENOENT">>

\* The places removeBinaries looks at, those among them that only a
\* privileged user can change, and one more place of the PATH.
BinaryLocations == {"~/.bun/bin/mzsh", "/usr/local/bin/mzsh", "/usr/bin/mzsh",
                    "~/.local/bin/mzsh"}
SystemLocations == {"/usr/local/bin/mzsh", "/usr/bin/mzsh"}
Elsewhere == "/opt/bin/mzsh"

\* -------------------------------------------------------------------- keys
\* A 'keypress' event carries a key object (name, ctrl) or no key at all.
\* "undefined" is a key object without a name; NullKey is the absent key.
KeyNames == {"up", "down", "k", "j", "return", "enter", "escape", "backspace",
             "q", "c", "x", "undefined"}
NullKey == [name |-> "null", ctrl |-> FALSE]
Keys == [name : KeyNames, ctrl : {FALSE}] \cup [name : {"c", "x"}, ctrl : {TRUE}]
          \cup {NullKey}

QuitValue == "__quit__"
Pending == "pending"

\* ------------------------------------------------------------------- state
VARIABLES
  pc,            \* position of the main flow (ZshrcManager.run and its awaits)
  args,          \* this.argv
  fsys,          \* the file system discovery reads
  io,            \* the errors the calls of discovery raise on it
  platform,      \* process.platform
  isTTY,         \* process.stdin.isTTY
  openType,      \* the open type resolved from the arguments
  files,         \* result of discoverZshFiles
  choices,       \* CustomListPrompt.choices
  pageSize,      \* CustomListPrompt.pageSize
  currentIndex,  \* CustomListPrompt.currentIndex (0-based, as in the code)
  rawMode,       \* raw mode of process.stdin
  listeners,     \* number of onKeypress listeners registered on stdin
  removals,      \* number of calls of cleanup() so far
  renders,       \* number of calls of render() so far
  window,        \* <<startIndex, endIndex>> of the last render
  keys,          \* number of 'keypress' events delivered so far
  lastKey,       \* the key of the last 'keypress' event delivered
  runResult,     \* settlement of the promise returned by run()
  launch,        \* settlement of the promise returned by openFileWithType
  launchMsg,     \* the message of the last error the launcher reported
  spawned,       \* the spawn() calls made so far
  spawnOk,       \* whether the spawn call started a child process
  childEvents,   \* the events the child process has emitted so far
  output,        \* kinds of the messages written to the console, in order
  exitCode,      \* exit code of the process, -1 while it is running
  projectFound,  \* whether findProjectRoot finds the project directory
  scripts,       \* the scripts runScript has spawned so far, in order
  scriptEvents,  \* the events of those scripts handled so far
  installed,     \* the places where an mzsh command exists
  privileged,    \* whether rm succeeds in the system directories
  configs,       \* content of each shell configuration file
  backups,       \* content of the backup file of each shell configuration file
  readOnly       \* the shell configuration files that cannot be written

vars == <<pc, args, fsys, io, platform, isTTY, openType, files, choices, pageSize, currentIndex,
          rawMode, listeners, removals, renders, window, keys, lastKey,
          runResult, launch, launchMsg, spawned, spawnOk, childEvents, output,
          exitCode, projectFound, scripts, scriptEvents, installed, privileged,
          configs, backups, readOnly>>

host == <<args, fsys, io, platform, isTTY>>
env == <<host, openType, files>>
prompt == <<choices, pageSize>>
child == <<launch, launchMsg, spawned, spawnOk, childEvents>>
maint == <<projectFound, scripts, scriptEvents, installed, privileged, configs,
           backups, readOnly>>

NoMsg == [kind |-> "none", name |-> "", code |-> 0]

\* The state when run() is called, for a command line of A and a file
\* system of F.
InitWith(A, F) ==
  /\ pc = "start"
  /\ args \in A
  /\ fsys \in F
  /\ platform \in Platforms
  /\ isTTY \in BOOLEAN
  /\ openType = "default"
  /\ files = <<>>
  /\ launchMsg = NoMsg
  /\ choices = <<>>
  /\ pageSize = 0
  /\ currentIndex = 0
  /\ rawMode = FALSE
  /\ listeners = 0
  /\ removals = 0
  /\ renders = 0
  /\ window = <<0, 0>>
  /\ keys = 0
  /\ lastKey = NullKey
  /\ runResult = Pending
  /\ launch = "none"
  /\ spawned = <<>>
  /\ spawnOk = FALSE
  /\ childEvents = <<>>
  /\ output = <<>>
  /\ exitCode = -1

\* The state of the maintenance flows before they have done anything: no
\* script spawned and no backup written.
NoMaintenanceYet ==
  /\ scripts = <<>>
  /\ scriptEvents = <<>>
  /\ backups = [c \in ConfigNames |-> Missing]

\* A machine on which the maintenance flows find nothing to work on; of
\* the shell configuration files only ~/.zshrc may exist.
BareMachine ==
  /\ NoMaintenanceYet
  /\ projectFound = FALSE
  /\ installed = {}
  /\ privileged = FALSE
  /\ configs = [c \in ConfigNames |->
                  IF c = ".zshrc" /\ fsys.hasZshrc THEN <<>> ELSE Missing]
  /\ readOnly = {}

\* File systems whose directory lists its entries in ascending order.
ListedInOrder(fs) ==
  fs.configFiles = SortedSeq({fs.configFiles[i] : i \in DOMAIN fs.configFiles})

\* Faults under which every entry that is not a regular file makes stat
\* fail, and an existing directory that lists nothing makes readdir fail.
\* (Directories among the entries, and empty directories, are left to the
\* specification of discovery alone.)
EveryOtherEntryFails(fs, f) ==
  /\ {fs.configFiles[i] : i \in DOMAIN fs.configFiles}
       \subseteq (fs.regular \cup f.dangling \cup f.denied)
  /\ (fs.dirExists /\ fs.configFiles = <<>>) => f.readdir # "ok"

Init ==
  /\ InitWith(Arguments,
              {fs \in FileSystems(MaxSecondary) : WellFormed(fs) /\ ListedInOrder(fs)})
  /\ io \in {f \in IOFaults(MaxSecondary) :
               Consistent(fsys, f) /\ EveryOtherEntryFails(fsys, f)}
  /\ BareMachine

\* ------------------------------------------------- CustomListPrompt.render
\* Variant of startIndex that steps back a whole page instead of half a page.
startIndexWholePage(idx, ps) == Max(0, idx - ps)

startIndex(idx, ps) == Max(0, idx - (ps \div 2))
endIndex(idx, ps, n) == Min(n, startIndex(idx, ps) + ps)

\* render() of a prompt with n choices and page size ps whose cursor index is
\* idx when it runs.
renderPrompt(idx, ps, n) ==
  /\ renders' = renders + 1
  /\ window' = <<startIndex(idx, ps), endIndex(idx, ps, n)>>

render(idx) == renderPrompt(idx, pageSize, Len(choices))

\* ------------------------------------------------ CustomListPrompt.cleanup
\* Variants of cleanup: one leaves raw mode on, one leaves the listener.
cleanupKeepRaw ==
  /\ rawMode' = rawMode
  /\ listeners' = 0
  /\ removals' = removals + 1

cleanupKeepListener ==
  /\ rawMode' = IF isTTY THEN FALSE ELSE rawMode
  /\ listeners' = listeners
  /\ removals' = removals + 1

cleanup ==
  /\ rawMode' = IF isTTY THEN FALSE ELSE rawMode
  /\ listeners' = 0
  /\ removals' = removals + 1

\* process.exit(code)
processExit(code) ==
  /\ pc' = "exited"
  /\ exitCode' = code

\* The value run() resolves with for the choice at 0-based index idx, and a
\* variant that is off by one.
selectedValueOffByOne(idx) == choices[Max(1, idx)].value

selectedValue(idx) == choices[idx + 1].value

\* resolve(value) of the promise returned by run(): settles it once and
\* schedules the continuation of showInteractiveMenu.
resolveRun(value) ==
  IF runResult = Pending
  THEN runResult' = value /\ pc' = "runReturned"
  ELSE UNCHANGED <<runResult, pc>>

\* ------------------------------------------------------- ZshrcManager.run
\* Variant of shouldUpdate that forgets --reinstall.
shouldUpdateNoReinstall(a) == a.update

shouldUpdate(a) == a.update \/ a.reinstall
shouldUninstall(a) == a.uninst

\* openTypeIndex !== -1 && args[openTypeIndex + 1]
openTypeGiven(a) == a.openTypeArg \notin {"absent", "missing"}

\* run() from its call to its first await: argument parsing and routing.
\* Help and an invalid open type end the run here; the uninstall and update
\* routes leave the flow modelled here; otherwise discovery is started.
Start ==
  /\ pc = "start"
  /\ IF args.help
     THEN /\ output' = Append(output, "help")
          /\ processExit(0)
          /\ UNCHANGED openType
     ELSE IF openTypeGiven(args) /\ ~isValidOpenType(args.openTypeArg)
     THEN /\ output' = Append(output, "invalidOpenType")
          /\ processExit(1)
          /\ UNCHANGED openType
     ELSE /\ openType' = IF openTypeGiven(args) THEN args.openTypeArg ELSE openType
          /\ pc' = IF shouldUninstall(args) THEN "uninstall"
                   ELSE IF shouldUpdate(args) THEN "update"
                   ELSE "discovering"
          /\ UNCHANGED <<output, exitCode>>
  /\ UNCHANGED <<host, maint, files, prompt, currentIndex, rawMode, listeners, removals,
                 renders, window, keys, lastKey, runResult, child>>

\* The line the catch clause of run() writes for an error with code e.
runErrorLine(e) ==
  CASE e = "ENOENT" -> "Error: ENOENT"
    [] e = "EACCES" -> "Error: EACCES"
    [] e = "ENOTDIR" -> "Error: ENOTDIR"
    [] OTHER -> "Error: Unknown error"

\* discoverZshFiles() from its call to its return, or to the catch clause
\* of run() when it raises an error.
Discover ==
  /\ pc = "discovering"
  /\ IF discoveryError(fsys, io) = "none"
     THEN /\ files' = discoverZshFiles(fsys)
          /\ pc' = "discovered"
          /\ UNCHANGED <<output, exitCode>>
     ELSE /\ output' = Append(output, runErrorLine(discoveryError(fsys, io)))
          /\ processExit(1)
          /\ UNCHANGED files
  /\ UNCHANGED <<host, maint, openType, prompt, currentIndex, rawMode, listeners,
                 removals, renders, window, keys, lastKey, runResult, child>>

\* Variant of noFilesFound that never reports an empty result.
noFilesFoundNever(fs) == FALSE

noFilesFound(fs) == Len(fs) = 0

\* The continuation of run() after discovery has returned files: with no files the error is reported and run() returns
\* (the process then ends with exit code 0),
\* otherwise showInteractiveMenu builds the choices, constructs the prompt
\* and calls run(), which renders, registers onKeypress and suspends.
quitChoice == [name |-> "Quit", value |-> QuitValue, short |-> "Quit"]

\* Variant of buildChoices that puts the quit choice first.
buildChoicesQuitFirst(fs) ==
  <<quitChoice>>
    \o [i \in 1..Len(fs) |-> [name |-> fs[i].name, value |-> fs[i].path, short |-> fs[i].name]]

buildChoices(fs) ==
  [i \in 1..Len(fs) |-> [name |-> fs[i].name, value |-> fs[i].path, short |-> fs[i].name]]
    \o <<quitChoice>>

menuPageSize(fs) == Min(Len(fs) + 3, MaxPageSize)

\* Variant of constructorRawMode that enables raw mode unconditionally.
constructorRawModeAlways == TRUE

\* Raw mode of stdin after the constructor of CustomListPrompt.
constructorRawMode == IF isTTY THEN TRUE ELSE rawMode

Run ==
  /\ pc = "discovered"
  /\ IF noFilesFound(files)
     THEN /\ output' = Append(output, "noConfigFiles")
          /\ processExit(0)
          /\ UNCHANGED <<prompt, rawMode, listeners, renders, window>>
     ELSE /\ output' = Append(output, "openingMethod")
          /\ choices' = buildChoices(files)
          /\ pageSize' = IF menuPageSize(files) = 0 THEN DefaultPageSize ELSE menuPageSize(files)
          /\ rawMode' = constructorRawMode
          /\ renderPrompt(currentIndex, pageSize', Len(choices'))
          /\ listeners' = listeners + 1
          /\ pc' = "awaitRun"
          /\ exitCode' = exitCode
  /\ UNCHANGED <<env, maint, currentIndex, removals, keys, lastKey, runResult, child>>

\* ------------------------------------------- CustomListPrompt.run: onKeypress
\* Variant of isQuitKey that forgets backspace.
isQuitKeyNoBackspace(key) == key.name \in {"escape", "q"}

isQuitKey(key) == key.name \in {"escape", "backspace", "q"}
\* Variant of isCtrlC that forgets the ctrl modifier.
isCtrlCAnyC(key) == key.name = "c"

isCtrlC(key) == key.ctrl /\ key.name = "c"
isUpKey(key) == key.name \in {"up", "k"}
isDownKey(key) == key.name \in {"down", "j"}
isEnterKey(key) == key.name \in {"return", "enter"}

\* Variants of navigate: without the clamps, and wrapping around.
navigateNoClamp(key, idx) ==
  IF key.name \in {"up", "k"} THEN idx - 1
  ELSE IF key.name \in {"down", "j"} THEN idx + 1
  ELSE idx

navigateWrap(key, idx) ==
  IF key.name \in {"up", "k"} THEN (idx - 1) % Len(choices)
  ELSE IF key.name \in {"down", "j"} THEN (idx + 1) % Len(choices)
  ELSE idx

\* The cursor index after the navigation part of onKeypress.
navigate(key, idx) ==
  IF isUpKey(key) THEN Max(0, idx - 1)
  ELSE IF isDownKey(key) THEN Min(Len(choices) - 1, idx + 1)
  ELSE idx

onKeypress(key) ==
  IF key = NullKey
  THEN UNCHANGED <<pc, currentIndex, rawMode, listeners, removals, renders,
                   window, runResult, output, exitCode>>
  ELSE IF isQuitKey(key) \/ isCtrlC(key)
  THEN /\ cleanup
       /\ output' = Append(output, "cancelled")
       /\ processExit(0)
       /\ UNCHANGED <<currentIndex, renders, window, runResult>>
  ELSE LET idx == navigate(key, currentIndex) IN
       /\ currentIndex' = idx
       /\ IF isUpKey(key) \/ isDownKey(key)
          THEN render(idx)
          ELSE UNCHANGED <<renders, window>>
       /\ IF isEnterKey(key) /\ idx + 1 \in DOMAIN choices
          THEN /\ cleanup
               /\ output' = Append(output, "newline")
               /\ resolveRun(selectedValue(idx))
          ELSE UNCHANGED <<rawMode, listeners, removals, output, runResult, pc>>
       /\ UNCHANGED exitCode

\* One 'keypress' event emitted by stdin: it reaches onKeypress only while
\* the listener is registered.  Events arrive while the main flow is
\* suspended in an await.
Keypress(key) ==
  /\ pc \in {"awaitRun", "awaitOpen"}
  /\ keys < MaxKeys
  /\ keys' = keys + 1
  /\ lastKey' = key
  /\ IF listeners > 0
     THEN onKeypress(key)
     ELSE UNCHANGED <<pc, currentIndex, rawMode, listeners, removals, renders,
                      window, runResult, output, exitCode>>
  /\ UNCHANGED <<env, maint, prompt, child>>

\* ------------------------------------------------------- openFileWithType
\* Variant of spawnCall that passes the open type as a second argument.
spawnCallExtraArg(filePath, t) ==
  [command |-> IF getOpenConfig(t).command = "function" THEN createDefaultCommand(platform)
               ELSE getOpenConfig(t).command,
   args |-> <<filePath, t>>,
   detached |-> getOpenConfig(t).detached, stdio |-> getOpenConfig(t).stdio,
   shell |-> getOpenConfig(t).shell]

\* The command and arguments handed to spawn().
spawnCall(filePath, t) ==
  LET config == getOpenConfig(t) IN
  [command |-> IF config.command = "function" THEN createDefaultCommand(platform)
               ELSE config.command,
   args |-> <<filePath>>,
   detached |-> config.detached, stdio |-> config.stdio, shell |-> config.shell]

\* Settlement of the launch promise: only the first resolve/reject counts,
\* and it schedules the continuation of openFile.
settleLaunch(result) ==
  IF launch = Pending
  THEN launch' = result /\ pc' = "openSettled"
  ELSE UNCHANGED <<launch, pc>>

\* The continuation of showInteractiveMenu after `await customPrompt.run()`:
\* the quit value ends the process, any other value is opened, which runs
\* openFileWithType up to the end of its promise executor.
\* Variant of isQuitSelection that never recognises the quit value.
isQuitSelectionNever(selectedFile) == FALSE

isQuitSelection(selectedFile) == selectedFile = QuitValue

\* spawn() throws in the promise executor when the looked-up config is not
\* an OpenConfig (its command is undefined), which rejects the promise.
executorThrows(t) == getOpenConfig(t).command = "undefined"

\* Variant of resolvesAtOnce that makes every strategy wait.
resolvesAtOnceNever(t) == FALSE

\* The else branch of `if (config.waitForExit)`.
resolvesAtOnce(t) == ~getOpenConfig(t).waitForExit

\* Variant of exitListenerRegistered that listens for every strategy.
exitListenerAlways(t) == TRUE

\* child.on('exit', ...) is registered only under `if (config.waitForExit)`.
exitListenerRegistered(t) == getOpenConfig(t).waitForExit

\* Variant of exitIsSuccess that accepts every exit status.
exitIsSuccessAlways(code) == TRUE

\* code === 0
exitIsSuccess(code) == code = 0

\* The messages of the two kinds of failure.
spawnErrorMsg(t) == [kind |-> "spawn", name |-> getOpenConfig(t).name, code |-> 0]
exitErrorMsg(t, code) == [kind |-> "exit", name |-> getOpenConfig(t).name, code |-> code]
thrownMsg == [kind |-> "thrown", name |-> "", code |-> 0]

\* The exit status of a child killed by a signal is null.
NullCode == -1
ExitCodes == (0..MaxExitCode) \cup {NullCode}

MenuContinuation ==
  /\ pc = "runReturned"
  /\ IF isQuitSelection(runResult)
     THEN /\ output' = Append(output, "cancelled")
          /\ processExit(0)
          /\ UNCHANGED child
     ELSE IF executorThrows(openType)
     THEN /\ output' = Append(output, "opening")
          /\ launch' = "rejected"
          /\ launchMsg' = thrownMsg
          /\ pc' = "openSettled"
          /\ UNCHANGED <<spawned, spawnOk, childEvents, exitCode>>
     ELSE /\ spawned' = Append(spawned, spawnCall(runResult, openType))
          /\ spawnOk' \in BOOLEAN
          /\ childEvents' = <<>>
          /\ launchMsg' = launchMsg
          /\ IF resolvesAtOnce(openType)
             THEN /\ output' = output \o <<"opening", "success">>
                  /\ launch' = "resolved"
                  /\ pc' = "openSettled"
             ELSE /\ output' = Append(output, "opening")
                  /\ launch' = Pending
                  /\ pc' = "awaitOpen"
          /\ UNCHANGED exitCode
  /\ UNCHANGED <<env, maint, prompt, currentIndex, rawMode, listeners, removals,
                 renders, window, keys, lastKey, runResult>>

\* child.on('error'): the spawn call did not start a process.
ChildError ==
  /\ pc \in {"awaitOpen", "openSettled"}
  /\ Len(spawned) > 0
  /\ ~spawnOk
  /\ childEvents = <<>>
  /\ childEvents' = Append(childEvents, [type |-> "error", code |-> 0])
  /\ output' = output \o <<"error", "tip">>
  /\ launchMsg' = spawnErrorMsg(openType)
  /\ settleLaunch("rejected")
  /\ spawned' = spawned /\ spawnOk' = spawnOk
  /\ UNCHANGED <<env, maint, prompt, currentIndex, rawMode, listeners, removals,
                 renders, window, keys, lastKey, runResult, exitCode>>

\* The child process terminates with status code; child.on('exit', code)
\* runs when it is registered.
ChildExit(code) ==
  /\ pc \in {"awaitOpen", "openSettled"}
  /\ Len(spawned) > 0
  /\ spawnOk
  /\ childEvents = <<>>
  /\ childEvents' = Append(childEvents, [type |-> "exit", code |-> code])
  /\ IF exitListenerRegistered(openType)
     THEN IF exitIsSuccess(code)
          THEN /\ output' = Append(output, "success")
               /\ settleLaunch("resolved")
               /\ launchMsg' = launchMsg
          ELSE /\ output' = output \o <<"error", "tip">>
               /\ launchMsg' = exitErrorMsg(openType, code)
               /\ settleLaunch("rejected")
     ELSE UNCHANGED <<output, launch, launchMsg, pc>>
  /\ spawned' = spawned /\ spawnOk' = spawnOk
  /\ UNCHANGED <<env, maint, prompt, currentIndex, rawMode, listeners, removals,
                 renders, window, keys, lastKey, runResult, exitCode>>

\* The continuation after `await this.openFile(...)`: openFile swallows a
\* rejection, and showInteractiveMenu ends the process with process.exit(0).
OpenContinuation ==
  /\ pc = "openSettled"
  /\ processExit(0)
  /\ UNCHANGED <<env, maint, prompt, currentIndex, rawMode, listeners, removals,
                 renders, window, keys, lastKey, runResult, child, output>>

\* ---------------------------------------------------- UpdateManager
\* Variant of scriptSucceeded that takes every exit status for a success.
scriptSucceededAlways(code) == TRUE

\* code === 0 in the 'close' handler of runScript.
scriptSucceeded(code) == code = 0

\* runScript(script): spawn('bash', [script]) and wait for its events.
runScript(script) == scripts' = Append(scripts, script)

\* The lines the catch clause of run() writes for a rejected runScript.
scriptExitLine == "Error: Script exited with code"
scriptSpawnLine == "Error: Failed to run script"

\* runUpdate() from its call to its first suspension in runScript: without
\* a project root the guidance is written and the process exits with 1,
\* otherwise the uninstall script is spawned.
UpdateStart ==
  /\ pc = "update"
  /\ IF ~projectFound
     THEN /\ output' = output \o <<"updateStarting", "searched", "projectNotFound">>
          /\ processExit(1)
          /\ UNCHANGED scripts
     ELSE /\ output' = output \o <<"updateStarting", "projectRoot", "step1">>
          /\ runScript("uninstall.sh")
          /\ pc' = "awaitUninstallScript"
          /\ UNCHANGED exitCode
  /\ UNCHANGED <<env, prompt, currentIndex, rawMode, listeners, removals,
                 renders, window, keys, lastKey, runResult, child,
                 projectFound, scriptEvents, installed, privileged, configs,
                 backups, readOnly>>

\* The 'close' event of the script that is awaited: status 0 resolves
\* runScript, and runUpdate goes on with the install script or, after it,
\* reports completion and returns (the process then ends with exit code 0);
\* any other status rejects it, which run() catches.
ScriptClose(code) ==
  /\ pc \in {"awaitUninstallScript", "awaitInstallScript"}
  /\ scriptEvents' = Append(scriptEvents,
                            [script |-> scripts[Len(scripts)], type |-> "close", code |-> code])
  /\ IF scriptSucceeded(code)
     THEN IF pc = "awaitUninstallScript"
          THEN /\ output' = output \o <<"newline", "step2">>
               /\ runScript("install.sh")
               /\ pc' = "awaitInstallScript"
               /\ UNCHANGED exitCode
          ELSE /\ output' = output \o <<"newline", "updateCompleted">>
               /\ processExit(0)
               /\ UNCHANGED scripts
     ELSE /\ output' = Append(output, scriptExitLine)
          /\ processExit(1)
          /\ UNCHANGED scripts
  /\ UNCHANGED <<env, prompt, currentIndex, rawMode, listeners, removals,
                 renders, window, keys, lastKey, runResult, child,
                 projectFound, installed, privileged, configs, backups, readOnly>>

\* The 'error' event of the script that is awaited: bash could not be
\* started; runScript is rejected, which run() catches.
ScriptError ==
  /\ pc \in {"awaitUninstallScript", "awaitInstallScript"}
  /\ scriptEvents' = Append(scriptEvents,
                            [script |-> scripts[Len(scripts)], type |-> "error", code |-> 0])
  /\ output' = Append(output, scriptSpawnLine)
  /\ processExit(1)
  /\ UNCHANGED <<env, prompt, currentIndex, rawMode, listeners, removals,
                 renders, window, keys, lastKey, runResult, child,
                 projectFound, scripts, installed, privileged, configs, backups,
                 readOnly>>

\* ---------------------------------------------------- SelfUninstaller
\* removeBunLink: `bun unlink`, which when it succeeds (ok) removes the
\* link in ~/.bun/bin.
removeBunLink(inst, ok) == IF ok THEN inst \ {"~/.bun/bin/mzsh"} ELSE inst

\* removeBinaries: `rm -f` on each of the four places that exists; in the
\* system directories it succeeds only for a privileged user.  (The
\* package directories removeDirectories removes hold no command, they are
\* not part of the state.)
removeBinaries(inst) ==
  inst \ {l \in BinaryLocations : l \notin SystemLocations \/ privileged}

\* Variant of checkMzshExists that never finds the command.
checkMzshExistsNever(inst) == FALSE

\* checkMzshExists: `which mzsh` finds a command.
checkMzshExists(inst) == inst # {}

\* content.includes(piece)
includes(content, piece) == \E i \in DOMAIN content : content[i] = piece

\* content.replace(/# Added by mzsh installer\n?/g, ''): every occurrence
\* of the marker is removed, together with a line break that follows it
\* directly.
RECURSIVE removeMarker(_)
removeMarker(content) ==
  IF content = <<>> THEN <<>>
  ELSE IF Head(content) = Marker
  THEN IF Len(content) >= 2 /\ content[2] = Newline
       THEN removeMarker(SubSeq(content, 3, Len(content)))
       ELSE removeMarker(Tail(content))
  ELSE <<Head(content)>> \o removeMarker(Tail(content))

\* One round of the loop of cleanupShellConfig, for the file c: whether it
\* is processed (it exists and holds the marker), its content and its
\* backup afterwards, and the messages written.  Writing a file that
\* cannot be written raises an error after the backup has been written;
\* the catch clause turns it into a warning.
holdsMarker(c) == configs[c] # Missing /\ includes(configs[c], Marker)

cleanedConfig(c) ==
  IF holdsMarker(c) /\ c \notin readOnly THEN removeMarker(configs[c]) ELSE configs[c]

backupOf(c) == IF holdsMarker(c) THEN configs[c] ELSE backups[c]

configMessages(c) ==
  IF configs[c] = Missing THEN <<>>
  ELSE IF holdsMarker(c) /\ c \in readOnly
  THEN <<"foundMarker", "backupCreated", "couldNotProcess">>
  ELSE (IF holdsMarker(c) THEN <<"foundMarker", "backupCreated", "cleaned", "preserved">>
        ELSE <<>>)
       \o (IF includes(configs[c], BunPath) THEN <<"foundBunPath">> ELSE <<>>)

\* configCleaned: the number of files cleaned.
configCleaned == Cardinality({c \in ConfigNames : holdsMarker(c) /\ c \notin readOnly})

cleanupMessages ==
  <<"cleaningUp">>
    \o configMessages(ShellConfigs[1]) \o configMessages(ShellConfigs[2])
    \o configMessages(ShellConfigs[3]) \o configMessages(ShellConfigs[4])
    \o (IF configCleaned = 0 THEN <<"noCleanupNeeded">>
        ELSE <<"cleanedSummary", "newline", "preservedNote">>)

cleanupShellConfig ==
  /\ configs' = [c \in ConfigNames |-> cleanedConfig(c)]
  /\ backups' = [c \in ConfigNames |-> backupOf(c)]

\* runUninstall() from its call to the suspension in verifyUninstallation
\* (await setTimeout): the three removal steps.
UninstallStart ==
  /\ pc = "uninstall"
  /\ \E ok \in BOOLEAN : installed' = removeBinaries(removeBunLink(installed, ok))
  /\ output' = output \o <<"uninstalling", "newline", "verifying">>
  /\ pc' = "verifying"
  /\ UNCHANGED <<env, prompt, currentIndex, rawMode, listeners, removals,
                 renders, window, keys, lastKey, runResult, child, exitCode,
                 projectFound, scripts, scriptEvents, privileged, configs,
                 backups, readOnly>>

\* The continuation after the timeout: when the command is still found
\* the process exits with 1; otherwise the shell configuration is cleaned,
\* completion is reported and a new shell is run, after which runUninstall
\* returns and the process ends with exit code 0.
VerifyContinuation ==
  /\ pc = "verifying"
  /\ IF checkMzshExists(installed)
     THEN /\ output' = output \o <<"stillFound", "manualRemoval">>
          /\ processExit(1)
          /\ UNCHANGED <<configs, backups>>
     ELSE /\ cleanupShellConfig
          /\ output' = output \o <<"removed">> \o cleanupMessages
                          \o <<"newline", "completed", "newline", "restartShell">>
          /\ processExit(0)
  /\ UNCHANGED <<env, prompt, currentIndex, rawMode, listeners, removals,
                 renders, window, keys, lastKey, runResult, child,
                 projectFound, scripts, scriptEvents, installed, privileged,
                 readOnly>>

Next ==
  \/ Start
  \/ Discover
  \/ Run
  \/ \E key \in Keys : Keypress(key)
  \/ MenuContinuation
  \/ ChildError
  \/ \E code \in ExitCodes : ChildExit(code)
  \/ OpenContinuation

Spec == Init /\ [][Next]_vars

\* Discovery alone, over every listing order and every mix of regular files
\* and directories, for the command lines that reach it.
InitDiscovery ==
  /\ InitWith({a \in Arguments : ~a.help /\ ~a.update /\ ~a.reinstall /\ ~a.uninst
                                  /\ a.openTypeArg \in {"absent", "vim"}},
              {fs \in FileSystems(MaxEntries) : WellFormed(fs)})
  /\ io \in {f \in IOFaults(MaxEntries) : Consistent(fsys, f)}
  /\ BareMachine

NextDiscovery ==
  \/ Start
  \/ Discover

SpecDiscovery == InitDiscovery /\ [][NextDiscovery]_vars

\* The selector alone: a prompt constructed over the first f of the files
\* .zshrc, a.zsh, b.zsh, c.zsh, d.zsh with a page size ps, whose run() has
\* rendered once and registered onKeypress; the keys then move the cursor.
ShownFiles(f) ==
  [i \in 1..f |-> IF i = 1 THEN ZshrcFile ELSE SecondaryFile(i - 1)]

InitRender ==
  /\ pc = "awaitRun"
  /\ args = [help |-> FALSE, update |-> FALSE, reinstall |-> FALSE, uninst |-> FALSE,
             openTypeArg |-> "absent"]
  /\ \E f \in 1..Min(MaxShown, Len(SecondaryNames) + 1) :
       /\ files = ShownFiles(f)
       /\ fsys = [hasZshrc |-> TRUE, dirExists |-> f > 1,
                  configFiles |-> SortedSeq(1..(f - 1)), regular |-> 1..(f - 1)]
  /\ io = NoFaults
  /\ platform = "linux"
  /\ isTTY \in BOOLEAN
  /\ openType = "default"
  /\ launchMsg = NoMsg
  /\ choices = buildChoices(files)
  /\ pageSize \in (1..MaxPage) \cup {menuPageSize(files)}
  /\ currentIndex = 0
  /\ rawMode = isTTY
  /\ listeners = 1
  /\ removals = 0
  /\ renders = 1
  /\ window = <<startIndex(0, pageSize), endIndex(0, pageSize, Len(choices))>>
  /\ keys = 0
  /\ lastKey = NullKey
  /\ runResult = Pending
  /\ launch = "none"
  /\ spawned = <<>>
  /\ spawnOk = FALSE
  /\ childEvents = <<>>
  /\ output = <<"openingMethod">>
  /\ exitCode = -1
  /\ BareMachine

NextRender == \E key \in Keys : Keypress(key)

SpecRender == InitRender /\ [][NextRender]_vars

\* The update flow: command lines with --update or --reinstall and without
\* --uninst, on machines with and without the project directory.
InitUpdate ==
  /\ InitWith({a \in Arguments : (a.update \/ a.reinstall) /\ ~a.uninst},
              {[hasZshrc |-> TRUE, dirExists |-> FALSE, configFiles |-> <<>>,
                regular |-> {}]})
  /\ io = NoFaults
  /\ NoMaintenanceYet
  /\ projectFound \in BOOLEAN
  /\ installed = {"~/.bun/bin/mzsh"}
  /\ privileged = FALSE
  /\ configs = [c \in ConfigNames |-> IF c = ".zshrc" THEN <<>> ELSE Missing]
  /\ readOnly = {}

NextUpdate ==
  \/ Start
  \/ UpdateStart
  \/ \E code \in ExitCodes : ScriptClose(code)
  \/ ScriptError

SpecUpdate == InitUpdate /\ [][NextUpdate]_vars

\* The uninstall flow.  The machines are of two families: any set of
\* installed commands with each shell configuration file missing, plain or
\* as the installer leaves it; and no command left to remove with one shell
\* configuration file of any content, writable or not.
PlainConfig == <<OtherText, Newline>>
MarkedConfig == <<OtherText, Newline, Marker, Newline, BunPath, Newline>>

InitUninstall ==
  /\ InitWith({a \in Arguments : a.uninst /\ ~a.help /\ ~a.reinstall
                                  /\ a.openTypeArg = "absent"},
              {[hasZshrc |-> z, dirExists |-> FALSE, configFiles |-> <<>>,
                regular |-> {}] : z \in BOOLEAN})
  /\ platform = "linux"
  /\ isTTY
  /\ io = NoFaults
  /\ NoMaintenanceYet
  /\ projectFound = FALSE
  /\ \/ /\ installed \in SUBSET (BinaryLocations \cup {Elsewhere})
        /\ privileged \in BOOLEAN
        /\ configs \in [ConfigNames -> {Missing, PlainConfig, MarkedConfig}]
        /\ readOnly = {}
     \/ /\ installed \in {{}, {"~/.bun/bin/mzsh"}}
        /\ privileged = FALSE
        /\ \E c \in ConfigNames :
             /\ configs \in {[d \in ConfigNames |-> IF d = c THEN content ELSE Missing] :
                               content \in Contents(MaxContent)}
             /\ readOnly \in {{}, {c}}
  /\ fsys.hasZshrc = (configs[".zshrc"] # Missing)

NextUninstall ==
  \/ Start
  \/ UninstallStart
  \/ VerifyContinuation

SpecUninstall == InitUninstall /\ [][NextUninstall]_vars

\* ================================================================= claims
\* A step that delivers a 'keypress' event to the registered onKeypress
\* listener while the selector waits for a key.
KeyStep == keys' = keys + 1 /\ pc = "awaitRun" /\ listeners > 0

LastIndex == Len(choices) - 1

\* Console messages without the blank lines.
Messages == SelectSeq(output, LAMBDA m : m # "newline")

\* C1: with a nonempty choice list the cursor index is always an integer in
\* [0, len(choices)-1], whatever keys have been pressed.
C1_CursorInRange ==
  Len(choices) > 0 => currentIndex \in 0..(Len(choices) - 1)

\* Down has been pressed more often than there are choices and the cursor
\* rests on the last choice.
C1_Witness ==
  /\ pc = "awaitRun"
  /\ Len(choices) = 2
  /\ keys >= 3 /\ renders = keys + 1
  /\ currentIndex = LastIndex

\* C2: Up/k at index 0 and Down/j at the last index leave the index where it
\* is; everywhere else Up decreases and Down increases it by exactly 1.
C2_NoWrap ==
  [][KeyStep =>
       /\ isUpKey(lastKey') =>
            currentIndex' = IF currentIndex = 0 THEN 0 ELSE currentIndex - 1
       /\ isDownKey(lastKey') =>
            currentIndex' = IF currentIndex = LastIndex THEN LastIndex
                            ELSE currentIndex + 1]_vars

\* Two navigation keys on a list of two choices ending with Down on the last
\* choice: either Up was pressed at index 0 or Down at the last index.
C2_Witness ==
  /\ pc = "awaitRun"
  /\ Len(choices) = 2
  /\ keys = 2 /\ renders = 3
  /\ lastKey.name \in {"down", "j"}
  /\ currentIndex = LastIndex

\* C3: Enter resolves the selector with exactly the value of the choice at
\* the cursor index the navigation keys have reached, and the result never
\* changes afterwards.
C3_EnterResolvesCursorChoice ==
  /\ [][(KeyStep /\ isEnterKey(lastKey')) =>
          /\ currentIndex' = currentIndex
          /\ runResult' = choices[currentIndex + 1].value]_vars
  /\ [](runResult # Pending => runResult = choices[currentIndex + 1].value)

\* Down, Enter on a list with at least two files: the second file is chosen.
C3_Witness ==
  /\ Len(choices) >= 3
  /\ keys = 2 /\ renders = 2
  /\ currentIndex = 1
  /\ isEnterKey(lastKey)
  /\ runResult = files[2].path

\* C4: Escape, Backspace, q or Ctrl+C pressed while the selector waits ends
\* the process as cancelled: cancellation message, exit code 0, run() never
\* resolved and nothing spawned.
IsCancelKey(key) ==
  key # NullKey /\ (key.name \in {"escape", "backspace", "q"} \/ (key.ctrl /\ key.name = "c"))

C4_CancelKeysCancel ==
  [][(KeyStep /\ IsCancelKey(lastKey')) =>
       /\ pc' = "exited"
       /\ exitCode' = 0
       /\ output' = Append(output, "cancelled")
       /\ runResult' = Pending
       /\ spawned' = <<>>
       /\ launch' = "none"]_vars

\* Backspace pressed after the cursor has been moved away from index 0.
C4_Witness ==
  /\ pc = "exited"
  /\ lastKey.name = "backspace"
  /\ currentIndex > 0
  /\ runResult = Pending
  /\ Messages = <<"openingMethod", "cancelled">>

\* C5: confirming the quit choice ends the process like a cancel key does:
\* the same messages, exit code 0, no child process; the quit value is never
\* handed to spawn as a file path.
C5_QuitChoiceIsCancel ==
  /\ runResult = QuitValue =>
       /\ pc \in {"runReturned", "exited"}
       /\ spawned = <<>>
       /\ launch = "none"
       /\ pc = "exited" => (exitCode = 0 /\ Messages = <<"openingMethod", "cancelled">>)
  /\ \A i \in DOMAIN spawned : spawned[i].args # <<QuitValue>>

\* Down, Down, Enter on [.zshrc, a.zsh, Quit].
C5_Witness ==
  /\ pc = "exited"
  /\ Len(choices) = 3
  /\ keys = 3 /\ renders = 3
  /\ currentIndex = 2
  /\ runResult = QuitValue

\* C6: when the launcher reports a failure the process terminates with a
\* nonzero exit code, and it terminates with exit code 0 after a launch only
\* when the launcher reported success.
C6_LaunchFailureExitsNonzero ==
  (pc = "exited" /\ launch # "none") =>
     /\ launch = "rejected" => exitCode # 0
     /\ exitCode = 0 => launch = "resolved"

\* C7: raw mode is off whenever run() has returned its result or the process
\* has exited.
C7_RawModeRestored ==
  (runResult # Pending \/ pc = "exited") => rawMode = FALSE

\* On a TTY the selector held raw mode, a key was pressed and the session
\* has ended by a cancel key.
C7_Witness ==
  /\ isTTY
  /\ pc = "exited"
  /\ removals = 1
  /\ runResult = Pending
  /\ IsCancelKey(lastKey)

\* C8: once the selector has resolved or cancelled, the listener has been
\* removed by exactly one cleanup, a later keypress changes neither the
\* cursor, the outcome nor the screen, and the outcome never changes.
SelectorEnded == runResult # Pending \/ (pc = "exited" /\ Len(choices) > 0)

C8_TerminalOnce ==
  /\ [](SelectorEnded => (listeners = 0 /\ removals = 1))
  /\ [][(SelectorEnded /\ keys' = keys + 1) =>
          UNCHANGED <<currentIndex, runResult, renders, window, pc, output,
                      exitCode, listeners, removals, rawMode>>]_vars
  /\ [][SelectorEnded => (runResult' = runResult /\ currentIndex' = currentIndex)]_vars

\* A navigation key arrives after Enter has resolved the selector, while the
\* editor is awaited.
C8_Witness ==
  /\ pc = "awaitOpen"
  /\ runResult # Pending
  /\ keys >= 2
  /\ isDownKey(lastKey)
  /\ currentIndex = 0

\* C9: a key that is none of up, down, k, j, return, enter, escape,
\* backspace, q, Ctrl+C is ignored: cursor, screen and position of the
\* session stay as they are.
IsOtherKey(key) ==
  \/ key = NullKey
  \/ /\ key.name \notin {"up", "down", "k", "j", "return", "enter", "escape", "backspace", "q"}
     /\ ~(key.ctrl /\ key.name = "c")

C9_OtherKeysIgnored ==
  [][(KeyStep /\ IsOtherKey(lastKey')) =>
       /\ pc' = "awaitRun"
       /\ UNCHANGED <<currentIndex, renders, window, runResult, output,
                      exitCode, listeners, removals, rawMode>>]_vars

\* The plain letter c has been pressed and the selector still waits.
C9_Witness ==
  /\ pc = "awaitRun"
  /\ keys > 0
  /\ lastKey = [name |-> "c", ctrl |-> FALSE]
  /\ listeners = 1

DocumentedTypes == {"default", "vim", "nano", "code", "subl"}
Reported(m) == \E i \in DOMAIN output : output[i] = m
WaitingTypes == {"vim", "nano"}
NonWaitingTypes == {"default", "code", "subl"}

\* C11: an open-type word is accepted if and only if it is one of default,
\* vim, nano, code, subl; every other word is rejected with the
\* invalid-open-type error and resolves to no strategy.
C11_AcceptsExactlyDocumentedTypes ==
  (pc # "start" /\ ~args.help /\ openTypeGiven(args)) =>
     /\ args.openTypeArg \in DocumentedTypes <=> ~Reported("invalidOpenType")
     /\ args.openTypeArg \notin DocumentedTypes => openType # args.openTypeArg

\* C12: with an invalid open-type word the program reports the error and
\* exits nonzero before discovery, menu or launch.
C12_InvalidTypeExitsFirst ==
  (pc # "start" /\ ~args.help /\ openTypeGiven(args)
     /\ args.openTypeArg \notin DocumentedTypes) =>
     /\ pc = "exited" /\ exitCode # 0
     /\ output = <<"invalidOpenType">>
     /\ files = <<>> /\ choices = <<>> /\ spawned = <<>>

\* C13: a spawn failure makes the launch fail for every strategy: the
\* promise is rejected with the message naming the strategy, and no success
\* is reported for that launch.
C13_SpawnFailureIsFailure ==
  (pc = "exited" /\ Len(spawned) > 0 /\ ~spawnOk) =>
     /\ launch = "rejected"
     /\ launchMsg = spawnErrorMsg(openType)
     /\ ~Reported("success")

\* C14: for vim and nano the launch completes only once the child has
\* terminated (or could not be spawned); exit status 0 gives success, any
\* other status a failure carrying that status.
C14_WaitingLaunch ==
  (openType \in WaitingTypes /\ Len(spawned) > 0) =>
     /\ (launch # Pending /\ spawnOk) => childEvents # <<>>
     /\ childEvents = <<>> => (launch = Pending /\ pc = "awaitOpen")
     /\ launch = "resolved" => childEvents = <<[type |-> "exit", code |-> 0]>>
     /\ (childEvents # <<>> /\ childEvents[1].type = "exit") =>
          IF childEvents[1].code = 0
          THEN launch = "resolved" /\ Reported("success") /\ ~Reported("error")
          ELSE /\ launch = "rejected"
               /\ ~Reported("success")
               /\ launchMsg = [kind |-> "exit",
                               name |-> IF openType = "vim" THEN "Vim" ELSE "Nano",
                               code |-> childEvents[1].code]

\* nano has exited with status 2.
C14_Witness ==
  /\ openType = "nano"
  /\ childEvents = <<[type |-> "exit", code |-> 2]>>
  /\ launch = "rejected"
  /\ pc = "exited"

\* C15: for default, code and subl the launch has succeeded as soon as
\* spawn has been called, it never waits, and no exit status of the child
\* turns it into a failure.
C15_NonWaitingLaunch ==
  (openType \in NonWaitingTypes /\ Len(spawned) > 0) =>
     /\ launch = "resolved"
     /\ pc # "awaitOpen"
     /\ Reported("success")
     /\ spawnOk => (~Reported("error") /\ launchMsg = NoMsg)

\* The child of VS Code has exited with status 2 after the launch succeeded.
C15_Witness ==
  /\ openType = "code"
  /\ spawnOk
  /\ childEvents = <<[type |-> "exit", code |-> 2]>>
  /\ launch = "resolved"

\* C16: discovery, selection and launching are strictly sequential: the
\* selector exists only after discovery has returned, a child is spawned
\* only after the selector has resolved with the path of a file, and no two
\* phases are in progress at once.
Discovering == pc = "discovering"
Selecting == listeners > 0 \/ rawMode \/ pc = "awaitRun"
Launching == Len(spawned) > 0 /\ pc # "exited"

C16_SequentialPhases ==
  /\ (Len(choices) > 0 \/ Selecting) => pc \notin {"start", "discovering", "discovered"}
  /\ Len(spawned) > 0 =>
       /\ runResult \notin {Pending, QuitValue}
       /\ \E i \in DOMAIN files : files[i].path = runResult
  /\ ~(Discovering /\ Selecting)
  /\ ~(Discovering /\ Launching)
  /\ ~(Selecting /\ Launching)

\* A key arrives while the editor is awaited.
C16_Witness ==
  /\ pc = "awaitOpen"
  /\ Len(spawned) = 1
  /\ keys >= 2
  /\ lastKey.name = "x"

\* C17: a launch with a documented open type spawns exactly one child, with
\* the strategy's command and the selected path as the only argument; a run
\* spawns at most one child, and none when it is cancelled, finds no files
\* or has an invalid open type.
ExpectedCommand ==
  CASE openType = "vim" -> "vim"
    [] openType = "nano" -> "nano"
    [] openType = "code" -> "code"
    [] openType = "subl" -> "subl"
    [] openType = "default" /\ platform = "darwin" -> "open"
    [] openType = "default" /\ platform = "win32" -> "start"
    [] openType = "default" /\ platform = "linux" -> "xdg-open"
    [] OTHER -> "none"

C17_OneChildPerLaunch ==
  /\ Len(spawned) <= 1
  /\ (launch # "none" /\ openType \in DocumentedTypes) => Len(spawned) = 1
  /\ Len(spawned) = 1 =>
       /\ launch # "none"
       /\ spawned[1].command = ExpectedCommand
       /\ spawned[1].args = <<runResult>>
       /\ \E i \in DOMAIN files : files[i].path = runResult
  /\ (runResult \in {Pending, QuitValue} \/ files = <<>>
        \/ (openTypeGiven(args) /\ args.openTypeArg \notin DocumentedTypes)) =>
       spawned = <<>>

\* The default opener has been launched on Linux for the second file.
C17_Witness ==
  /\ pc = "exited"
  /\ openType = "default" /\ platform = "linux"
  /\ Len(spawned) = 1
  /\ spawned[1].command = "xdg-open"
  /\ currentIndex = 1

\* C18: when discovery returns no files the program reports it and ends
\* with exit code 0, without a menu, raw mode or a child process.
C18_NoFilesFound ==
  /\ [][(pc = "discovered" /\ files = <<>>) =>
          /\ pc' = "exited" /\ exitCode' = 0
          /\ output' = Append(output, "noConfigFiles")
          /\ UNCHANGED <<choices, rawMode, listeners, renders, spawned, launch>>]_vars
  /\ [](files = <<>> =>
          (choices = <<>> /\ ~rawMode /\ listeners = 0 /\ renders = 0
             /\ spawned = <<>> /\ launch = "none"))

\* The run has ended with the no-files report.
C18_Witness ==
  /\ pc = "exited"
  /\ ~fsys.hasZshrc /\ ~fsys.dirExists
  /\ output = <<"noConfigFiles">>
  /\ exitCode = 0

\* C19: with --update, --reinstall or --uninst the core flow is never
\* entered: no discovery, no menu, no launch.
C19_FlagsBypassCore ==
  (args.update \/ args.reinstall \/ args.uninst) =>
     /\ pc \in {"start", "exited", "uninstall", "update"}
     /\ files = <<>> /\ choices = <<>>
     /\ listeners = 0 /\ ~rawMode /\ renders = 0
     /\ spawned = <<>> /\ launch = "none"
     /\ ~Reported("noConfigFiles") /\ ~Reported("openingMethod")

\* --reinstall alone has been routed to the update flow.
C19_Witness ==
  /\ pc = "update"
  /\ args.reinstall /\ ~args.update /\ ~args.uninst
  /\ args.openTypeArg = "vim"

\* C20: discovery returns the primary file first, then the secondary files
\* in ascending order of name; a primary file with b.zsh, a.zsh, c.zsh in
\* any listing order gives [.zshrc, a.zsh, b.zsh, c.zsh].
NameOf(fs) == [i \in DOMAIN fs |-> fs[i].name]
NamePosition(n) == CHOOSE i \in DOMAIN SecondaryNames : SecondaryNames[i] = n

C20_PrimaryFirstThenAscending ==
  pc = "discovered" =>
     /\ \A i \in DOMAIN files : files[i].isZshrc <=> (i = 1 /\ fsys.hasZshrc)
     /\ \A i, j \in DOMAIN files :
          (i < j /\ ~files[i].isZshrc) =>
             NamePosition(files[i].name) < NamePosition(files[j].name)
     /\ (fsys.hasZshrc /\ fsys.regular = {1, 2, 3}) =>
          NameOf(files) = <<".zshrc", "a.zsh", "b.zsh", "c.zsh">>

\* The directory has listed b.zsh, a.zsh, c.zsh.
C20_Witness ==
  /\ pc = "discovered"
  /\ fsys.hasZshrc
  /\ fsys.configFiles = <<2, 1, 3>>
  /\ fsys.regular = {1, 2, 3}
  /\ Len(files) = 4

\* ------------------------------------------------------------ C21 .. C30
\* The lines the catch clause of run() can write, and whether it wrote one.
RunErrors == {"Error: ENOENT", "Error: EACCES", "Error: ENOTDIR", "Error: Unknown error"}
DiscoveryFailed == \E i \in DOMAIN output : output[i] \in RunErrors
DiscoveryDone == pc \notin {"start", "discovering"}
Listed == {fsys.configFiles[i] : i \in DOMAIN fsys.configFiles}

\* C21: discovery fails only on permission or input/output errors other
\* than "path does not exist": it never fails with ENOENT, a missing
\* directory or a missing primary file by itself is no error, and with
\* neither location present the result is the empty sequence.
C21_FailsOnlyOnIOErrors ==
  DiscoveryDone =>
    /\ ~Reported("Error: ENOENT")
    /\ ~fsys.dirExists => (pc = "discovered" /\ ~DiscoveryFailed)
    /\ (~fsys.hasZshrc /\ io = NoFaults) => (pc = "discovered" /\ ~DiscoveryFailed)
    /\ (~fsys.hasZshrc /\ ~fsys.dirExists) => files = <<>>

\* C22: the result of discovery holds exactly the primary file when it
\* exists (the only entry marked isZshrc, at most one) and each entry of
\* the secondary directory that is a regular file, marked not isZshrc and
\* once each; entries that are no regular files are never in it.
C22_ExactlyPrimaryAndRegularFiles ==
  pc = "discovered" =>
    /\ {i \in DOMAIN files : files[i].isZshrc}
         = (IF fsys.hasZshrc THEN {1} ELSE {})
    /\ \A i \in DOMAIN files :
         files[i].isZshrc => (files[i].name = ".zshrc" /\ files[i].path = "/home/u/.zshrc")
    /\ {files[i].name : i \in {j \in DOMAIN files : ~files[j].isZshrc}}
         = {SecondaryNames[e] : e \in fsys.regular}
    /\ \A i \in DOMAIN files : \A e \in 1..MaxEntries :
         (~files[i].isZshrc /\ files[i].name = SecondaryNames[e]) =>
            files[i].path = SecondaryPaths[e]
    /\ Len(files) = (IF fsys.hasZshrc THEN 1 ELSE 0) + Cardinality(fsys.regular)
    /\ \A e \in Listed \ fsys.regular :
         \A i \in DOMAIN files : files[i].name # SecondaryNames[e]

\* The directory has listed b.zsh, a.zsh, c.zsh, of which a.zsh is a
\* directory, next to the primary file.
C22_Witness ==
  /\ pc = "discovered"
  /\ fsys.hasZshrc
  /\ fsys.configFiles = <<2, 1, 3>>
  /\ fsys.regular = {2, 3}
  /\ Len(files) = 3

\* C23: the choice list of the selector has one choice per discovered file,
\* in discovery order, followed by exactly one quit choice: its length is
\* the number of files plus one and the quit value occurs once, at the last
\* index.
C23_ChoicesAreFilesThenQuit ==
  Len(choices) > 0 =>
    /\ Len(choices) = Len(files) + 1
    /\ \A i \in DOMAIN files :
         /\ choices[i].value = files[i].path
         /\ choices[i].short = files[i].name
    /\ {i \in DOMAIN choices : choices[i].value = QuitValue} = {Len(choices)}

\* The menu is shown for the primary file and two secondary files.
C23_Witness ==
  /\ pc = "awaitRun"
  /\ Len(files) = 3
  /\ Len(choices) = 4
  /\ renders = 1

\* C24: every render of the menu's prompt draws a window of exactly
\* min(number of choices, page size) consecutive choices, for every cursor
\* index, and the window is centred on the cursor whenever a window of that
\* size centred there lies inside the list.
WindowSize == window[2] - window[1]
HalfPage == pageSize \div 2

C24_WindowIsFullPage ==
  (renders > 0 /\ pageSize = Min(Len(files) + 3, 15)) =>
    /\ 0 <= window[1] /\ window[2] <= Len(choices)
    /\ WindowSize = Min(Len(choices), pageSize)
    /\ (currentIndex - HalfPage >= 0 /\ currentIndex - HalfPage + pageSize <= Len(choices)) =>
         window[1] = currentIndex - HalfPage

\* C27: in every render the selected choice lies inside the drawn window:
\* startIndex <= cursor index < endIndex, for every cursor index in range
\* and every page size from 1 on.
C27_CursorInsideWindow ==
  renders > 0 => (window[1] <= currentIndex /\ currentIndex < window[2])

\* With a page of one line the cursor has been moved down twice.
C27_Witness ==
  /\ pageSize = 1
  /\ renders = 3
  /\ currentIndex = 2
  /\ window = <<2, 3>>

\* C25: an input/output failure of the enumeration is caught by run(): one
\* error line is written, the process exits with a nonzero code, and
\* neither the menu nor a launch happens.
IOFailure ==
  fsys.dirExists /\ (io.readdir # "ok" \/ io.dangling \cup io.denied # {})

C25_EnumerationFailureCaught ==
  /\ [][(pc = "discovering" /\ IOFailure) =>
          /\ pc' = "exited" /\ exitCode' # 0
          /\ \E line \in RunErrors : output' = Append(output, line)
          /\ UNCHANGED <<files, choices, listeners, rawMode, renders, spawned, launch>>]_vars
  /\ [](DiscoveryFailed =>
          /\ pc = "exited" /\ exitCode # 0
          /\ Len(output) = 1
          /\ files = <<>> /\ choices = <<>> /\ listeners = 0 /\ ~rawMode
          /\ renders = 0 /\ spawned = <<>> /\ launch = "none")

\* The primary file exists and the secondary directory cannot be read.
C25_Witness ==
  /\ pc = "exited"
  /\ fsys.hasZshrc
  /\ io.readdir = "EACCES"
  /\ output = <<"Error: EACCES">>
  /\ exitCode = 1

\* C26: for every launch at most one outcome reaches the caller's
\* callbacks: onSuccess and onError are never both invoked and neither is
\* invoked twice, whatever the child's events and their order.  (openFile
\* passes callbacks that write "success", and "error" with a tip.)
Invocations(m) == Cardinality({i \in DOMAIN output : output[i] = m})

C26_AtMostOneOutcome ==
  Invocations("success") + Invocations("error") <= 1

\* C28: runUpdate is a strict sequence of two phases: the install script
\* is started only after the uninstall script has exited with status 0;
\* when the uninstall script cannot be started or exits with another
\* status the install script is never run and the update ends in error;
\* without a project root the process exits with 1 and no script is run.
UninstallScriptFailed ==
  /\ scriptEvents # <<>>
  /\ scriptEvents[1].script = "uninstall.sh"
  /\ (scriptEvents[1].type = "error" \/ scriptEvents[1].code # 0)

C28_TwoPhaseUpdate ==
  /\ scripts \in {<<>>, <<"uninstall.sh">>, <<"uninstall.sh", "install.sh">>}
  /\ Len(scripts) = 2 =>
       scriptEvents[1] = [script |-> "uninstall.sh", type |-> "close", code |-> 0]
  /\ UninstallScriptFailed =>
       /\ scripts = <<"uninstall.sh">>
       /\ pc = "exited" /\ exitCode # 0
       /\ ~Reported("updateCompleted")
  /\ (~projectFound /\ pc \notin {"start", "update"} /\ ~args.help
        /\ ~(openTypeGiven(args) /\ args.openTypeArg \notin DocumentedTypes
                /\ args.openTypeArg \notin InheritedKeys)) =>
       (pc = "exited" /\ exitCode = 1 /\ scripts = <<>> /\ Reported("projectNotFound"))
  /\ Reported("updateCompleted") =>
       /\ Len(scriptEvents) = 2
       /\ \A i \in 1..2 : scriptEvents[i].type = "close" /\ scriptEvents[i].code = 0

\* Both scripts have run and the update has completed.
C28_Witness ==
  /\ pc = "exited"
  /\ exitCode = 0
  /\ scripts = <<"uninstall.sh", "install.sh">>
  /\ Len(scriptEvents) = 2
  /\ Reported("updateCompleted")

\* C29: runUninstall changes the shell configuration files only after the
\* verification has found the mzsh command gone: when the command is still
\* found after the removal steps the process exits with 1, no shell
\* configuration file is changed and no backup is written.
C29_CleanupOnlyAfterVerification ==
  /\ [][(pc = "verifying" /\ installed # {}) =>
          /\ pc' = "exited" /\ exitCode' = 1
          /\ UNCHANGED <<configs, backups>>]_vars
  /\ [][(configs' # configs \/ backups' # backups) =>
          (pc = "verifying" /\ installed = {} /\ exitCode' = 0)]_vars
  /\ [](Reported("stillFound") =>
          (exitCode = 1 /\ backups = [c \in ConfigNames |-> Missing]
             /\ ~Reported("cleaningUp")))

\* A command in /usr/local/bin could not be removed, and ~/.zshrc still
\* holds the installer's marker.
C29_Witness ==
  /\ pc = "exited"
  /\ exitCode = 1
  /\ installed = {"/usr/local/bin/mzsh"}
  /\ configs[".zshrc"] = MarkedConfig
  /\ backups[".zshrc"] = Missing

\* C30: cleanupShellConfig only removes lines literally and keeps a
\* backup: a file without the marker keeps its content and gets no backup;
\* for a file with the marker the backup holds the original content and
\* the new content is the original without its marker lines, every other
\* line kept in order.  (Files that cannot be written are left aside; a
\* line is taken with its line break.)
RECURSIVE SplitLines(_)
SplitLines(content) ==
  IF content = <<>> THEN <<>>
  ELSE LET breaks == {i \in DOMAIN content : content[i] = Newline}
           end == IF breaks = {} THEN Len(content)
                  ELSE CHOOSE i \in breaks : \A j \in breaks : i <= j
       IN <<SubSeq(content, 1, end)>> \o SplitLines(SubSeq(content, end + 1, Len(content)))

RECURSIVE JoinLines(_)
JoinLines(lines) ==
  IF lines = <<>> THEN <<>> ELSE Head(lines) \o JoinLines(Tail(lines))

IsMarkerLine(line) == line \in {<<Marker>>, <<Marker, Newline>>}
WithoutMarkerLines(content) ==
  JoinLines(SelectSeq(SplitLines(content), LAMBDA line : ~IsMarkerLine(line)))
WithoutLinesHoldingMarker(content) ==
  JoinLines(SelectSeq(SplitLines(content), LAMBDA line : ~includes(line, Marker)))

C30_LiteralRemovalWithBackup ==
  [][(pc = "verifying" /\ pc' = "exited" /\ exitCode' = 0) =>
       \A c \in ConfigNames :
         IF configs[c] = Missing
         THEN configs'[c] = Missing /\ backups'[c] = backups[c]
         ELSE IF ~includes(configs[c], Marker)
         THEN configs'[c] = configs[c] /\ backups'[c] = backups[c]
         ELSE /\ backups'[c] = configs[c]
              /\ c \notin readOnly =>
                   configs'[c] \in {WithoutMarkerLines(configs[c]),
                                    WithoutLinesHoldingMarker(configs[c])}]_vars

====
